---- MODULE Spec2Model ----
(***************************************************************************)
(* LLaMA inference (llama-scratch.ipynb): the generation loop              *)
(* LLaMA.text_completion, the key/value cache of SelfAttention, and the    *)
(* nucleus sampler LLaMA._sample_top_p.                                    *)
(*                                                                         *)
(* Tensors are functions over 0-based index ranges, as in the source.      *)
(* Hidden vectors, keys and values are abstracted to residues modulo       *)
(* KVMod; every linear map is an affine map on residues, so that the       *)
(* output of a forward call depends on every cache entry it reads.         *)
(* Probabilities are integer masses (numerators over a common total).      *)
(***************************************************************************)
EXTENDS Integers, FiniteSets, Sequences, TLC

\* ---------------------------------------------------------------- bounds
\* ModelArgs.max_seq_len, ModelArgs.max_batch_size, ModelArgs.n_layers and
\* ModelArgs.vocab_size of the model instance that is checked.
max_seq_len == 3
max_batch_size == 2
n_layers == 2
vocab_size == 3
\* size of the residue domain of hidden/key/value entries
KVMod == 3
\* largest max_gen_len argument that is tried
MaxGenLen == 2
\* number of text_completion calls made on the one model instance
MaxCalls == 2
\* _sample_top_p taken alone: vector length and total integer mass
TopPLen == 3
TopPTotal == 4

\* ------------------------------------------------------------- tokenizer
\* The SentencePiece tokenizer is an external collaborator; these are the
\* ids of the LLaMA tokenizer model the notebook loads.
PadId == -1
BosId == 1
EosId == 2

Vocab == 0 .. (vocab_size - 1)

\* self.tokenizer.eos_id, as lines 559, 567 and 568 write it: the bound method
\* SentencePieceProcessor.eos_id, NOT its result EosId (compare pad_id() on
\* line 534 and vocab_size() on line 503, which are called).  An integer id
\* would be [kind |-> "int", val |-> id].
tokenizer_eos_id == [kind |-> "method", name |-> "eos_id"]

\* Python/torch `==` between an integer token and an object: an integer
\* compares by value, any other object (a method) is unequal to every integer
\* (Tensor.__eq__ and int.__eq__ both answer NotImplemented, leaving identity).
PyEq(tok, obj) == obj.kind = "int" /\ obj.val = tok

\* ----------------------------------------------------------- small helpers
Min(a, b) == IF a <= b THEN a ELSE b

Len0(f) == Cardinality(DOMAIN f)

RECURSIVE SumTo(_, _)
\* f[0] + ... + f[n-1]
SumTo(f, n) == IF n <= 0 THEN 0 ELSE f[n - 1] + SumTo(f, n - 1)

RECURSIVE Pow2(_)
Pow2(n) == IF n <= 0 THEN 1 ELSE 2 * Pow2(n - 1)

\* ---------------------------------------------------------------- inputs
\* tokenizer.encode(prompt, add_bos=True, add_eos=False): BOS, then the pieces
\* of the text.  Prompts one longer than max_seq_len are included so that the
\* length assertion can fail.
MaxPromptLen == max_seq_len + 1

PromptTail == {0, EosId}

Prompts ==
    { f \in UNION { [0 .. (n - 1) -> PromptTail \cup {BosId}] : n \in 1 .. MaxPromptLen } :
        /\ f[0] = BosId
        /\ \A i \in DOMAIN f : i > 0 => f[i] \in PromptTail }

\* batches of one more than max_batch_size are included so that the batch
\* assertion can fail
Batches == UNION { [0 .. (n - 1) -> Prompts] : n \in 1 .. (max_batch_size + 1) }

Temperatures == {0, 1}

\* top_p as a numerator over the total mass of Softmax
TopPs == {1, 6}

NoneArg == -1
GenLens == {NoneArg} \cup (0 .. MaxGenLen)

\* ------------------------------------------------------------ Transformer
\* nn.Embedding lookup of one token id
tok_embeddings(t) == (t + 1) % KVMod

\* RMSNorm.forward: a rescaling of the vector, the identity on residues
RMSNorm(x) == x

\* the attention projections of layer l (nn.Linear, bias=False)
wq(l, x) == (x + l) % KVMod
wk(l, x) == (2 * x + l) % KVMod
wv(l, x) == (x + 2 * l) % KVMod
wo(l, x) == x % KVMod

\* rotary_embeddings with freqs_complex[start_pos : start_pos + seq_len]:
\* a position-dependent rotation, invertible for each position
rotary_embeddings(x, pos) == (x + pos) % KVMod

\* FeedForward.forward: a stateless function of its input
FeedForward(x) == (x + 1) % KVMod

\* one entry of a layer's cache buffer; a buffer is [row -> [position -> value]]
CacheAt(c, b, p) ==
    IF b \in DOMAIN c /\ p \in DOMAIN c[b] THEN c[b][p] ELSE 0

\* a bug: the slice assignment starts at position 0
WritePositionsFromZero(start_pos, seq_len) == 0 .. (start_pos + seq_len - 1)

\* the positions and rows of the slice assignment
\*   cache[:batch_size, start_pos : start_pos + seq_len] = x
WritePositions(start_pos, seq_len) == start_pos .. (start_pos + seq_len - 1)

WriteRows(batch_size) == 0 .. (batch_size - 1)

\* a bug: the slice read runs over the whole buffer
ReadPositionsAll(start_pos, seq_len) == 0 .. (max_seq_len - 1)

\* the positions and rows of the slice read
\*   cache[:batch_size, : start_pos + seq_len]
ReadPositions(start_pos, seq_len) == 0 .. (start_pos + seq_len - 1)

ReadRows(batch_size) == 0 .. (batch_size - 1)

\* a buffer after the slice assignment; x is [row -> new entry]
CacheWrite(c, batch_size, start_pos, seq_len, x) ==
    [b \in DOMAIN c |-> [p \in DOMAIN c[b] |->
        IF b \in WriteRows(batch_size) /\ p \in WritePositions(start_pos, seq_len)
        THEN x[b] ELSE c[b][p]]]

\* a bug: the slice is read back before the new entry is stored
RowBeforeWrite(c, b, start_pos, seq_len, x) ==
    [p \in 0 .. (max_seq_len - 1) |-> CacheAt(c, b, p)]

\* row b (an active row) of a buffer after the slice assignment of entry x
RowAfterWrite(c, b, start_pos, seq_len, x) ==
    [p \in 0 .. (max_seq_len - 1) |->
        IF p \in WritePositions(start_pos, seq_len) THEN x ELSE CacheAt(c, b, p)]

\* row b of keys/values: the slice read back after the write of this call
ReadRow(c, b, start_pos, seq_len, x) ==
    [p \in ReadPositions(start_pos, seq_len) |->
        RowAfterWrite(c, b, start_pos, seq_len, x)[p]]

\* scores = softmax(xq . keys / sqrt(head_dim)); output = scores . values:
\* a function of the query and of every key and value that was read
Attend(xq, keys, values) ==
    SumTo([j \in 0 .. (Len0(keys) - 1) |-> xq + keys[j] + 2 * values[j]],
          Len0(keys)) % KVMod

\* SelfAttention.forward for row b of layer l, ck/cv being that layer's buffers
SelfAttention(l, x, ck, cv, b, start_pos, seq_len) ==
    LET xq == rotary_embeddings(wq(l, x), start_pos)
        xk == rotary_embeddings(wk(l, x), start_pos)
        xv == wv(l, x)
        keys == ReadRow(ck, b, start_pos, seq_len, xk)
        values == ReadRow(cv, b, start_pos, seq_len, xv)
    IN  wo(l, Attend(xq, keys, values))

\* EncoderBlock.forward for row b of layer l
EncoderBlock(l, x, ck, cv, b, start_pos, seq_len) ==
    LET h == (x + SelfAttention(l, RMSNorm(x), ck, cv, b, start_pos, seq_len)) % KVMod
    IN  (h + FeedForward(RMSNorm(h))) % KVMod

RECURSIVE LayerInput(_, _, _, _, _, _, _)
\* the hidden state of row b entering layer l (l = n_layers + 1: leaving the
\* last layer), for input token tok: the loop over self.layers
LayerInput(l, ck, cv, tok, b, start_pos, seq_len) ==
    IF l = 1 THEN tok_embeddings(tok)
    ELSE EncoderBlock(l - 1,
                      LayerInput(l - 1, ck, cv, tok, b, start_pos, seq_len),
                      ck[l - 1], cv[l - 1], b, start_pos, seq_len)

\* the key and the value layer l writes for row b
NewKey(l, ck, cv, tok, b, start_pos, seq_len) ==
    rotary_embeddings(
        wk(l, RMSNorm(LayerInput(l, ck, cv, tok, b, start_pos, seq_len))), start_pos)

NewValue(l, ck, cv, tok, b, start_pos, seq_len) ==
    wv(l, RMSNorm(LayerInput(l, ck, cv, tok, b, start_pos, seq_len)))

\* the caches of all layers after Transformer.forward(col, start_pos), col
\* being the input column [row -> token]
CacheKAfter(ck, cv, col, start_pos, seq_len) ==
    [l \in DOMAIN ck |->
        CacheWrite(ck[l], Len0(col), start_pos, seq_len,
                   [b \in DOMAIN col |-> NewKey(l, ck, cv, col[b], b, start_pos, seq_len)])]

CacheVAfter(ck, cv, col, start_pos, seq_len) ==
    [l \in DOMAIN cv |->
        CacheWrite(cv[l], Len0(col), start_pos, seq_len,
                   [b \in DOMAIN col |-> NewValue(l, ck, cv, col[b], b, start_pos, seq_len)])]

\* self.output(self.norm(h)): the logits over the vocabulary, all different
Output(h) == [v \in Vocab |-> (v + h) % vocab_size]

\* Transformer.forward: logits[:, -1] of every row
Logits(ck, cv, col, start_pos, seq_len) ==
    [b \in DOMAIN col |->
        Output(RMSNorm(LayerInput(n_layers + 1, ck, cv, col[b], b, start_pos, seq_len)))]

\* ---------------------------------------------------------------- Sampler
\* torch.sort(probs, descending=True): the index vectors probs_idx it may
\* return (the order of equal entries is not specified)
SortPerms(probs) ==
    { idx \in [DOMAIN probs -> DOMAIN probs] :
        /\ \A i, j \in DOMAIN probs : i # j => idx[i] # idx[j]
        /\ \A i, j \in DOMAIN probs : i < j => probs[idx[i]] >= probs[idx[j]] }

\* probs_sort for a given probs_idx
Gather(probs, idx) == [i \in DOMAIN idx |-> probs[idx[i]]]

\* probs_sum = torch.cumsum(probs_sort)
Cumsum(probs_sort) == [i \in DOMAIN probs_sort |-> SumTo(probs_sort, i + 1)]

\* a bug: the cumulative sum is not shifted by probs_sort
TopPMaskUnshifted(probs_sort, p) ==
    [i \in DOMAIN probs_sort |-> Cumsum(probs_sort)[i] > p]

\* a bug: the comparison is >= instead of >
TopPMaskAtLeast(probs_sort, p) ==
    [i \in DOMAIN probs_sort |-> Cumsum(probs_sort)[i] - probs_sort[i] >= p]

\* mask = probs_sum - probs_sort > p
TopPMask(probs_sort, p) ==
    [i \in DOMAIN probs_sort |-> Cumsum(probs_sort)[i] - probs_sort[i] > p]

\* probs_sort[mask] = 0.0 (the division by the sum that follows rescales the
\* masses and leaves the zero entries zero)
TopPMasked(probs_sort, p) ==
    [i \in DOMAIN probs_sort |-> IF TopPMask(probs_sort, p)[i] THEN 0 ELSE probs_sort[i]]

\* torch.multinomial over the masked masses, then torch.gather(probs_idx):
\* the tokens that can be returned for one row
TopPTokens(probs, idx, p) ==
    { idx[i] : i \in { j \in DOMAIN idx : TopPMasked(Gather(probs, idx), p)[j] > 0 } }

\* _sample_top_p on one row, over every order the sort may return
sample_top_p_row(probs, p) ==
    UNION { TopPTokens(probs, idx, p) : idx \in SortPerms(probs) }

\* torch.softmax(logits / temperature): masses proportional to 2^logit
Softmax(logits, temperature) ==
    [v \in DOMAIN logits |-> Pow2(logits[v] \div temperature)]

\* torch.argmax of one row
Argmax(row) ==
    CHOOSE v \in DOMAIN row :
        \A w \in DOMAIN row : row[w] < row[v] \/ (row[w] = row[v] /\ v <= w)

\* lines 546-554: the next_token vectors one iteration can compute
NextTokens(logits, temperature, top_p) ==
    IF temperature > 0
    THEN { f \in [DOMAIN logits -> Vocab] :
             \A b \in DOMAIN logits :
                f[b] \in sample_top_p_row(Softmax(logits[b], temperature), top_p) }
    ELSE { [b \in DOMAIN logits |-> Argmax(logits[b])] }

\* -------------------------------------------------------- text_completion
\* a bug: the position of the input token is passed as start_pos
ForwardStartPrev(pos) == pos - 1

\* the start_pos argument of self.model.forward(tokens[:, cur_pos-1:cur_pos], cur_pos)
ForwardStart(pos) == pos

\* the number of columns of the slice tokens[:, lo:hi]
SliceLen(lo, hi) == hi - lo

\* a bug: the assertion is missing
BatchAssertOff(batch_size) == TRUE

\* assert batch_size <= self.args.max_batch_size
BatchAssert(batch_size) == batch_size <= max_batch_size

\* assert max_prompt_len <= self.args.max_seq_len
PromptLenAssert(max_prompt_len) == max_prompt_len <= max_seq_len

\* max(len(prompt) for prompt in prompt_tokens)
MaxPromptLenOf(prompts) ==
    CHOOSE n \in { Len0(prompts[k]) : k \in DOMAIN prompts } :
        \A k \in DOMAIN prompts : Len0(prompts[k]) <= n

\* total_len = min(max_seq_len, max_gen_len + max_prompt_len)
TotalLen(gen_len, max_prompt_len) == Min(max_seq_len, gen_len + max_prompt_len)

\* tokens = full(pad_id); tokens[k, :len(t)] = t
InitTokens(prompts, tl) ==
    [k \in DOMAIN prompts |-> [i \in 0 .. (tl - 1) |->
        IF i < Len0(prompts[k]) THEN prompts[k][i] ELSE PadId]]

\* prompt_tokens_mask = tokens != pad_id
PromptMask(toks) ==
    [k \in DOMAIN toks |-> [i \in DOMAIN toks[k] |-> toks[k][i] # PadId]]

\* a bug: the sampled token is committed at every position
WhereSampled(is_prompt, old, sampled) == sampled

\* next_token = torch.where(prompt_tokens_mask[:, cur_pos], tokens[:, cur_pos], next_token)
Where(is_prompt, old, sampled) == IF is_prompt THEN old ELSE sampled

\* eos_reached |= (~prompt_tokens_mask[:, cur_pos]) & (next_token == self.tokenizer.eos_id)
EosReached(reached, is_prompt, tok) ==
    reached \/ (~is_prompt /\ PyEq(tok, tokenizer_eos_id))

\* all(eos_reached)
All(flags) == \A b \in DOMAIN flags : flags[b]

\* lines 567-569: the row cut before its first eos_id, if it has one
CutAtEos(row) ==
    IF \E i \in DOMAIN row : PyEq(row[i], tokenizer_eos_id)
    THEN LET eos_idx == CHOOSE i \in DOMAIN row :
                            /\ PyEq(row[i], tokenizer_eos_id)
                            /\ \A j \in DOMAIN row : j < i => ~PyEq(row[j], tokenizer_eos_id)
         IN  [i \in 0 .. (eos_idx - 1) |-> row[i]]
    ELSE row

RECURSIVE GreedyLoop(_, _, _, _, _, _, _)
\* the loop of lines 543-561 with temperature == 0, run from position pos on
\* the caches ck, cv: the token grid it ends with
GreedyLoop(ck, cv, toks, mask, reached, pos, tl) ==
    IF pos >= tl THEN toks
    ELSE LET col == [b \in DOMAIN toks |-> toks[b][pos - 1]]
             start_pos == ForwardStart(pos)
             seq_len == SliceLen(pos - 1, pos)
             logits == Logits(ck, cv, col, start_pos, seq_len)
             sampled == CHOOSE f \in NextTokens(logits, 0, 0) : TRUE
             next_token == [b \in DOMAIN toks |->
                 Where(mask[b][pos], toks[b][pos], sampled[b])]
             reached2 == [b \in DOMAIN toks |->
                 EosReached(reached[b], mask[b][pos], next_token[b])]
             toks2 == [b \in DOMAIN toks |-> [toks[b] EXCEPT ![pos] = next_token[b]]]
         IN  IF All(reached2) THEN toks2
             ELSE GreedyLoop(CacheKAfter(ck, cv, col, start_pos, seq_len),
                             CacheVAfter(ck, cv, col, start_pos, seq_len),
                             toks2, mask, reached2, pos + 1, tl)

\* ------------------------------------------------------------------ state
VARIABLES
    cache_k,            \* SelfAttention.cache_k of every layer: [layer -> [row -> [position -> entry]]]
    cache_v,            \* SelfAttention.cache_v of every layer
    pc,                 \* where text_completion is: "idle", "loop", "epilogue", "done", "failed"
    ncalls,             \* text_completion calls made so far on this model
    prompt_tokens,      \* the encoded prompts of the running call
    temperature,
    top_p,
    max_gen_len,
    total_len,
    tokens,             \* the token grid [row -> [position -> id]]
    prompt_tokens_mask,
    eos_reached,
    cur_pos,
    out_tokens,         \* the token lists returned
    fwd_log,            \* the Transformer.forward calls of the running call, in order
    tp_pc,              \* _sample_top_p taken alone: "off", "input", "done"
    tp_probs,           \* its argument probs (one row)
    tp_p,               \* its argument p
    tp_idx,             \* probs_idx
    tp_sort,            \* probs_sort after the masking
    tp_next,            \* the token it returns
    rk_pc,              \* repeat_kv taken alone: "off", "input", "done"
    rk_x,               \* its argument x: [row -> [position -> [head -> head vector]]]
    rk_n_rep,           \* its argument n_rep
    rk_out,             \* the tensor it returns
    cfg_pc,             \* Transformer(args) taken alone: "off", "input", "built", "failed"
    cfg_args,           \* the ModelArgs it is given
    cfg_model           \* the attributes of the constructed model

cacheVars == <<cache_k, cache_v>>

callVars == <<prompt_tokens, temperature, top_p, max_gen_len, total_len, tokens,
              prompt_tokens_mask, eos_reached, cur_pos, out_tokens, fwd_log>>

tpVars == <<tp_pc, tp_probs, tp_p, tp_idx, tp_sort, tp_next>>

rkVars == <<rk_pc, rk_x, rk_n_rep, rk_out>>

cfgVars == <<cfg_pc, cfg_args, cfg_model>>

vars == <<cache_k, cache_v, pc, ncalls, prompt_tokens, temperature, top_p, max_gen_len,
          total_len, tokens, prompt_tokens_mask, eos_reached, cur_pos, out_tokens,
          fwd_log, tp_pc, tp_probs, tp_p, tp_idx, tp_sort, tp_next,
          rk_pc, rk_x, rk_n_rep, rk_out, cfg_pc, cfg_args, cfg_model>>

\* the value of a local that is not bound
Unset == [i \in {} |-> 0]

\* torch.zeros((max_batch_size, max_seq_len, n_kv_heads, head_dim)), per layer
ZeroCache ==
    [l \in 1 .. n_layers |-> [b \in 0 .. (max_batch_size - 1) |->
        [p \in 0 .. (max_seq_len - 1) |-> 0]]]

\* no text_completion call is running: its locals do not exist
NoCall ==
    /\ prompt_tokens = Unset
    /\ temperature = 0
    /\ top_p = 0
    /\ max_gen_len = 0
    /\ total_len = 0
    /\ tokens = Unset
    /\ prompt_tokens_mask = Unset
    /\ eos_reached = Unset
    /\ cur_pos = 0
    /\ out_tokens = Unset
    /\ fwd_log = <<>>

TopPOff ==
    /\ tp_pc = "off"
    /\ tp_probs = Unset
    /\ tp_p = 0
    /\ tp_idx = Unset
    /\ tp_sort = Unset
    /\ tp_next = 0

RepeatKvOff ==
    /\ rk_pc = "off"
    /\ rk_x = Unset
    /\ rk_n_rep = 0
    /\ rk_out = Unset

ConfigOff ==
    /\ cfg_pc = "off"
    /\ cfg_args = Unset
    /\ cfg_model = Unset

\* the model after Transformer.__init__ / LLaMA.build
Init ==
    /\ cache_k = ZeroCache
    /\ cache_v = ZeroCache
    /\ pc = "idle"
    /\ ncalls = 0
    /\ NoCall
    /\ TopPOff
    /\ RepeatKvOff
    /\ ConfigOff

\* what text_completion(prompts, temperature=0, max_gen_len=gen_len) returns
\* on a model that has just been constructed (all caches zero)
FreshCompletion(prompts, gen_len) ==
    LET tl == TotalLen(gen_len, MaxPromptLenOf(prompts))
        toks == InitTokens(prompts, tl)
        final == GreedyLoop(ZeroCache, ZeroCache, toks, PromptMask(toks),
                            [b \in DOMAIN prompts |-> FALSE], 1, tl)
    IN  [b \in DOMAIN prompts |-> CutAtEos(final[b])]

\* ---------------------------------------------------------------- actions
\* text_completion up to the loop (lines 520-542), or its failing assertion
Call ==
    /\ pc = "idle"
    /\ ncalls < MaxCalls
    /\ ncalls' = ncalls + 1
    /\ UNCHANGED cacheVars
    /\ UNCHANGED tpVars
    /\ UNCHANGED rkVars
    /\ UNCHANGED cfgVars
    /\ \E prompts \in Batches, t \in Temperatures, p \in TopPs, g \in GenLens :
        LET gen_len == IF g = NoneArg THEN max_seq_len - 1 ELSE g
            batch_size == Len0(prompts)
            max_prompt_len == MaxPromptLenOf(prompts)
            tl == TotalLen(gen_len, max_prompt_len)
            toks == InitTokens(prompts, tl)
        IN  IF BatchAssert(batch_size) /\ PromptLenAssert(max_prompt_len)
            THEN /\ prompt_tokens' = prompts
                 /\ temperature' = t
                 /\ top_p' = p
                 /\ max_gen_len' = gen_len
                 /\ total_len' = tl
                 /\ tokens' = toks
                 /\ prompt_tokens_mask' = PromptMask(toks)
                 /\ eos_reached' = [b \in DOMAIN prompts |-> FALSE]
                 /\ cur_pos' = 1
                 /\ out_tokens' = Unset
                 /\ fwd_log' = <<>>
                 /\ pc' = IF 1 < tl THEN "loop" ELSE "epilogue"
            ELSE /\ pc' = "failed"
                 /\ prompt_tokens' = prompts
                 /\ UNCHANGED <<temperature, top_p, max_gen_len, total_len, tokens,
                                prompt_tokens_mask, eos_reached, cur_pos, out_tokens,
                                fwd_log>>

\* one iteration of the loop `for cur_pos in range(1, total_len)` (lines 543-561)
Step ==
    /\ pc = "loop"
    /\ UNCHANGED <<ncalls, prompt_tokens, temperature, top_p, max_gen_len, total_len,
                   prompt_tokens_mask, out_tokens>>
    /\ UNCHANGED tpVars
    /\ UNCHANGED rkVars
    /\ UNCHANGED cfgVars
    /\ LET col == [b \in DOMAIN tokens |-> tokens[b][cur_pos - 1]]
           start_pos == ForwardStart(cur_pos)
           seq_len == SliceLen(cur_pos - 1, cur_pos)
           batch_size == Len0(col)
           logits == Logits(cache_k, cache_v, col, start_pos, seq_len)
       IN  /\ cache_k' = CacheKAfter(cache_k, cache_v, col, start_pos, seq_len)
           /\ cache_v' = CacheVAfter(cache_k, cache_v, col, start_pos, seq_len)
           /\ fwd_log' = Append(fwd_log,
                            [start_pos |-> start_pos, seq_len |-> seq_len,
                             batch_size |-> batch_size,
                             rows |-> ReadRows(batch_size),
                             positions |-> ReadPositions(start_pos, seq_len)])
           /\ \E sampled \in NextTokens(logits, temperature, top_p) :
                LET next_token == [b \in DOMAIN tokens |->
                        Where(prompt_tokens_mask[b][cur_pos], tokens[b][cur_pos], sampled[b])]
                    reached == [b \in DOMAIN tokens |->
                        EosReached(eos_reached[b], prompt_tokens_mask[b][cur_pos], next_token[b])]
                IN  /\ tokens' = [b \in DOMAIN tokens |->
                                    [tokens[b] EXCEPT ![cur_pos] = next_token[b]]]
                    /\ eos_reached' = reached
                    /\ IF All(reached) \/ cur_pos + 1 >= total_len
                       THEN pc' = "epilogue" /\ cur_pos' = cur_pos
                       ELSE pc' = "loop" /\ cur_pos' = cur_pos + 1

\* lines 563-572: every row cut at its eos_id and returned
Epilogue ==
    /\ pc = "epilogue"
    /\ out_tokens' = [b \in DOMAIN tokens |-> CutAtEos(tokens[b])]
    /\ pc' = "done"
    /\ UNCHANGED <<ncalls, prompt_tokens, temperature, top_p, max_gen_len, total_len,
                   tokens, prompt_tokens_mask, eos_reached, cur_pos, fwd_log>>
    /\ UNCHANGED cacheVars
    /\ UNCHANGED tpVars
    /\ UNCHANGED rkVars
    /\ UNCHANGED cfgVars

\* the call has returned or raised: its locals are gone, the model stays
Return ==
    /\ pc \in {"done", "failed"}
    /\ pc' = "idle"
    /\ prompt_tokens' = Unset
    /\ temperature' = 0
    /\ top_p' = 0
    /\ max_gen_len' = 0
    /\ total_len' = 0
    /\ tokens' = Unset
    /\ prompt_tokens_mask' = Unset
    /\ eos_reached' = Unset
    /\ cur_pos' = 0
    /\ out_tokens' = Unset
    /\ fwd_log' = <<>>
    /\ UNCHANGED ncalls
    /\ UNCHANGED cacheVars
    /\ UNCHANGED tpVars
    /\ UNCHANGED rkVars
    /\ UNCHANGED cfgVars

Next == Call \/ Step \/ Epilogue \/ Return

Spec == Init /\ [][Next]_vars


\* ------------------------------------------- properties of text_completion
\* the call is past its assertions and has its locals
Running == pc \in {"loop", "epilogue", "done"}

\* a buffer set with every entry outside rows 0 .. batch_size-1 and
\* positions 0 .. last_pos zeroed
Scrub(c, batch_size, last_pos) ==
    [l \in DOMAIN c |-> [b \in DOMAIN c[l] |-> [p \in DOMAIN c[l][b] |->
        IF b < batch_size /\ p <= last_pos THEN c[l][b][p] ELSE 0]]]

\* some cache entry outside rows 0 .. batch_size-1 and positions 0 .. last_pos
\* holds data
StaleOutside(batch_size, last_pos) ==
    \E l \in DOMAIN cache_k : \E b \in DOMAIN cache_k[l] : \E p \in DOMAIN cache_k[l][b] :
        /\ b >= batch_size \/ p > last_pos
        /\ cache_k[l][b][p] # 0 \/ cache_v[l][b][p] # 0

\* the row before the first occurrence of EosId (the whole row without one)
PrefixBeforeEos(row) ==
    IF \E i \in DOMAIN row : row[i] = EosId
    THEN LET first == CHOOSE i \in DOMAIN row :
                          row[i] = EosId /\ \A j \in DOMAIN row : j < i => row[j] # EosId
         IN  [i \in 0 .. (first - 1) |-> row[i]]
    ELSE row

\* EosId has been committed at a non-prompt position of row b
EosCommitted(b) ==
    \E i \in DOMAIN tokens[b] :
        i >= Len0(prompt_tokens[b]) /\ tokens[b][i] = EosId

\* C1: when text_completion returns, every prompt position of every row is
\* present in the returned sequence and holds the input prompt token.
C1_PromptPreserved ==
    pc = "done" =>
        \A b \in DOMAIN prompt_tokens : \A i \in DOMAIN prompt_tokens[b] :
            i \in DOMAIN out_tokens[b] /\ out_tokens[b][i] = prompt_tokens[b][i]

\* C1 witness: a sampling call returned after the loop ran over the prompt
\* positions of a prompt of three tokens that contains EosId.
C1_Witness ==
    /\ pc = "done"
    /\ temperature > 0
    /\ Len(fwd_log) >= 2
    /\ \E b \in DOMAIN prompt_tokens :
        /\ Len0(prompt_tokens[b]) >= 3
        /\ \E i \in DOMAIN prompt_tokens[b] : prompt_tokens[b][i] = EosId

\* C2 as claimed: every returned sequence is its token row cut strictly
\* before the first EosId (the whole row if it has none).
C2_TruncatedAtEos ==
    pc = "done" => \A b \in DOMAIN tokens : out_tokens[b] = PrefixBeforeEos(tokens[b])

\* C3 as claimed: at most total_len - 1 forward calls are made, a row is
\* marked finished exactly when EosId has been committed at one of its
\* non-prompt positions, and no forward call is made once all rows are
\* finished.
C3_LoopTermination ==
    Running =>
        /\ Len(fwd_log) <= total_len - 1 \/ (total_len = 0 /\ fwd_log = <<>>)
        /\ \A b \in DOMAIN tokens : eos_reached[b] <=> EosCommitted(b)
        /\ pc = "loop" => \E b \in DOMAIN tokens : ~EosCommitted(b)

\* C4 as claimed: the first forward call processes the whole prompt at
\* start_pos = 0 and only the later calls have sequence length 1.
C4_PrimingCall ==
    fwd_log # <<>> =>
        /\ fwd_log[1].start_pos = 0
        /\ fwd_log[1].seq_len = MaxPromptLenOf(prompt_tokens)
        /\ \A i \in 2 .. Len(fwd_log) : fwd_log[i].seq_len = 1

\* C4 amended: there is no priming call; every forward call, the first
\* included, has sequence length 1, and the i-th forward call of a
\* text_completion call is made at start_pos = i (the first at start_pos = 1).
C4_OneTokenPerCall ==
    \A i \in 1 .. Len(fwd_log) :
        fwd_log[i].seq_len = 1 /\ fwd_log[i].start_pos = i

\* C4 witness: a call with a prompt of several tokens returned after several
\* forward calls.
C4_Witness ==
    /\ pc = "done"
    /\ Len(fwd_log) >= 2
    /\ MaxPromptLenOf(prompt_tokens) >= 2

\* C5: every forward call with start position p and batch size b reads the
\* cache entries of rows 0 .. b-1 at positions 0 .. p and nothing else: the
\* logits of the next forward call are the same when every other entry is
\* zeroed.
C5_CausalReads ==
    /\ \A i \in 1 .. Len(fwd_log) :
        /\ fwd_log[i].rows = 0 .. (fwd_log[i].batch_size - 1)
        /\ fwd_log[i].positions = 0 .. fwd_log[i].start_pos
    /\ pc = "loop" =>
        LET col == [b \in DOMAIN tokens |-> tokens[b][cur_pos - 1]]
            start_pos == ForwardStart(cur_pos)
            seq_len == SliceLen(cur_pos - 1, cur_pos)
        IN  Logits(cache_k, cache_v, col, start_pos, seq_len)
              = Logits(Scrub(cache_k, Len0(col), start_pos),
                       Scrub(cache_v, Len0(col), start_pos), col, start_pos, seq_len)

\* C5 witness: a forward call was made while entries of an earlier call lay
\* beyond its position or its rows, and another forward call is due.
C5_Witness ==
    /\ pc = "loop"
    /\ ncalls >= 2
    /\ fwd_log # <<>>
    /\ StaleOutside(Len0(tokens), ForwardStart(cur_pos))

\* C6: a greedy call (temperature == 0) returns what the same call returns on
\* a freshly constructed model, whatever calls were made on the model before;
\* so two greedy calls with identical prompts return identical sequences.
C6_GreedyDeterminism ==
    (pc = "done" /\ temperature = 0) =>
        out_tokens = FreshCompletion(prompt_tokens, max_gen_len)

\* C6 witness: a greedy call returned after forward calls on a model whose
\* cache still holds entries of an earlier call outside what this call wrote.
C6_Witness ==
    /\ pc = "done"
    /\ temperature = 0
    /\ ncalls >= 2
    /\ fwd_log # <<>>
    /\ StaleOutside(Len0(tokens), total_len - 1)

\* C7 as claimed: each prompt of a greedy batch of two gets the sequence it
\* gets when it is run alone with the same max_gen_len.
C7_BatchIndependence ==
    (pc = "done" /\ temperature = 0 /\ Len0(prompt_tokens) = 2) =>
        \A b \in DOMAIN prompt_tokens :
            out_tokens[b] =
                FreshCompletion([k \in {0} |-> prompt_tokens[b]], max_gen_len)[0]

\* C10: every forward call writes within the cache (start_pos + seq_len <=
\* max_seq_len, batch_size <= max_batch_size); a call fails exactly when its
\* batch or its longest prompt is too large, and it fails before any forward
\* call, with both caches of every layer unchanged.
C10_CapacitySafety ==
    [][ /\ pc' = "failed" =>
            /\ cache_k' = cache_k
            /\ cache_v' = cache_v
            /\ fwd_log' = <<>>
        /\ (pc = "idle" /\ pc' # "idle") =>
            (pc' = "failed" <=>
                \/ Len0(prompt_tokens') > max_batch_size
                \/ MaxPromptLenOf(prompt_tokens') > max_seq_len)
        /\ Len(fwd_log') > Len(fwd_log) =>
            LET e == fwd_log'[Len(fwd_log')]
            IN  /\ e.start_pos + e.seq_len <= max_seq_len
                /\ e.batch_size <= max_batch_size
                /\ e.batch_size = Len0(prompt_tokens) ]_vars

\* C10 witness: a call with too large a batch failed on a model whose cache
\* holds the entries of an earlier call.
C10_Witness ==
    /\ pc = "failed"
    /\ Len0(prompt_tokens) > max_batch_size
    /\ cache_k # ZeroCache

\* the forward calls 1 .. i of the running call wrote row b, position p
WrittenUpTo(i, b, p) ==
    \E j \in 1 .. i :
        /\ b \in WriteRows(fwd_log[j].batch_size)
        /\ p \in WritePositions(fwd_log[j].start_pos, fwd_log[j].seq_len)

\* C13 as claimed: at every attention read of a text_completion call, made with
\* start position s, every cache position 0 .. s of every active row was written
\* by a forward call of this same text_completion call.
C13_FullyWritten ==
    \A i \in 1 .. Len(fwd_log) :
        \A b \in fwd_log[i].rows : \A p \in fwd_log[i].positions :
            WrittenUpTo(i, b, p)

\* C14: within one text_completion call start_pos grows by exactly 1 from each
\* forward call to the next, and a forward call changes, in every layer, no
\* cache entry other than those at position start_pos of rows
\* 0 .. batch_size-1; no position is written by two forward calls of a call.
C14_WriteOnceCursor ==
    [][ Len(fwd_log') > Len(fwd_log) =>
            LET e == fwd_log'[Len(fwd_log')]
            IN  /\ Len(fwd_log) >= 1 =>
                    e.start_pos = fwd_log[Len(fwd_log)].start_pos + 1
                /\ \A i \in 1 .. Len(fwd_log) : fwd_log[i].start_pos # e.start_pos
                /\ \A l \in DOMAIN cache_k : \A b \in DOMAIN cache_k[l] :
                     \A p \in DOMAIN cache_k[l][b] :
                        (\/ cache_k'[l][b][p] # cache_k[l][b][p]
                         \/ cache_v'[l][b][p] # cache_v[l][b][p])
                        => (p = e.start_pos /\ b < e.batch_size) ]_vars

\* C14 witness: the second forward call of a call on a single prompt was made
\* on a model whose cache holds entries of an earlier call in the other row
\* and at the earlier position.
C14_Witness ==
    /\ ncalls >= 2
    /\ Len(fwd_log) >= 2
    /\ Len0(tokens) = 1
    /\ \E l \in DOMAIN cache_k :
        /\ cache_k[l][1][1] # 0 \/ cache_v[l][1][1] # 0
        /\ cache_k[l][0][1] # 0 \/ cache_v[l][0][1] # 0

\* C15 as claimed: no returned sequence holds more than max_gen_len tokens
\* beyond its own prompt.
C15_LengthBudget ==
    pc = "done" =>
        \A b \in DOMAIN out_tokens :
            Len0(out_tokens[b]) - Len0(prompt_tokens[b]) <= max_gen_len

\* ------------------------------------------------ _sample_top_p taken alone
\* the rows probs that are tried: integer masses with total TopPTotal, in any
\* order, zero entries (underflow of the softmax) included
ProbVectors ==
    { f \in [0 .. (TopPLen - 1) -> 0 .. TopPTotal] : SumTo(f, TopPLen) = TopPTotal }

\* the thresholds p that are tried, as numerators over TopPTotal
Thresholds == 0 .. (TopPTotal + 1)

InitTopP ==
    /\ cache_k = ZeroCache
    /\ cache_v = ZeroCache
    /\ pc = "idle"
    /\ ncalls = 0
    /\ NoCall
    /\ tp_pc = "input"
    /\ tp_probs \in ProbVectors
    /\ tp_p \in Thresholds
    /\ tp_idx = Unset
    /\ tp_sort = Unset
    /\ tp_next = 0
    /\ RepeatKvOff
    /\ ConfigOff

\* _sample_top_p(probs, p) on the row tp_probs (lines 574-590); a row whose
\* masses are all zero after the masking makes torch.multinomial raise
SampleTopP ==
    /\ tp_pc = "input"
    /\ UNCHANGED <<cache_k, cache_v, pc, ncalls, tp_probs, tp_p>>
    /\ UNCHANGED callVars
    /\ UNCHANGED rkVars
    /\ UNCHANGED cfgVars
    /\ \E idx \in SortPerms(tp_probs) :
        LET probs_sort == TopPMasked(Gather(tp_probs, idx), tp_p)
            drawable == { i \in DOMAIN probs_sort : probs_sort[i] > 0 }
        IN  /\ tp_idx' = idx
            /\ tp_sort' = probs_sort
            /\ IF drawable = {}
               THEN tp_pc' = "error" /\ tp_next' = 0
               ELSE \E i \in drawable : tp_pc' = "done" /\ tp_next' = idx[i]

NextTopP == SampleTopP

SpecTopP == InitTopP /\ [][NextTopP]_vars


\* ------------------------------------------------- properties of the sampler
\* the largest mass of a row
MaxProb(probs) ==
    CHOOSE m \in { probs[i] : i \in DOMAIN probs } : \A i \in DOMAIN probs : probs[i] <= m

\* the row in sorted order, before the masking
TpSorted == Gather(tp_probs, tp_idx)

\* a row with the prefix 0 .. k kept and everything after it zeroed
KeepPrefix(probs_sort, k) ==
    [i \in DOMAIN probs_sort |-> IF i <= k THEN probs_sort[i] ELSE 0]

\* the last index of the smallest non-empty prefix whose cumulative sum is >= p
\* (the whole row when no prefix reaches p)
PrefixReaching(probs_sort, p) ==
    LET hit == { k \in DOMAIN probs_sort : Cumsum(probs_sort)[k] >= p }
    IN  IF hit = {} THEN Len0(probs_sort) - 1
        ELSE CHOOSE k \in hit : \A j \in hit : k <= j

\* the last index of the smallest prefix whose cumulative sum is > p (the
\* whole row when no prefix exceeds p)
PrefixExceeding(probs_sort, p) ==
    LET hit == { k \in DOMAIN probs_sort : Cumsum(probs_sort)[k] > p }
    IN  IF hit = {} THEN Len0(probs_sort) - 1
        ELSE CHOOSE k \in hit : \A j \in hit : k <= j

\* C8: _sample_top_p never ends with an empty candidate set: for every row and
\* every p >= 0 the highest-probability token keeps its non-zero mass, and
\* when p is below the highest probability it is the only token with mass
\* left, hence the token that is drawn.
C8_NucleusNeverEmpty ==
    tp_pc \in {"done", "error"} =>
        /\ tp_pc = "done"
        /\ tp_sort[0] = MaxProb(tp_probs)
        /\ tp_sort[0] > 0
        /\ tp_p < MaxProb(tp_probs) =>
              /\ \A i \in DOMAIN tp_sort : i > 0 => tp_sort[i] = 0
              /\ tp_next = tp_idx[0]
              /\ tp_probs[tp_next] = MaxProb(tp_probs)

\* C8 witness: a threshold 0 < p below the highest probability, on a row with
\* several tokens of non-zero probability, has been sampled.
C8_Witness ==
    /\ tp_pc = "done"
    /\ 0 < tp_p
    /\ tp_p < MaxProb(tp_probs)
    /\ Cardinality({ i \in DOMAIN tp_probs : tp_probs[i] > 0 }) >= 2
    /\ tp_next = tp_idx[0]

\* C9 as claimed: the masses left are those of the smallest prefix whose
\* cumulative sum reaches p (>= p), everything outside it zeroed.
C9_PrefixReachingP ==
    tp_pc = "done" => tp_sort = KeepPrefix(TpSorted, PrefixReaching(TpSorted, tp_p))

\* C9 amended: the masses left are those of the smallest prefix whose
\* cumulative sum exceeds p (> p), the whole row when none does; everything
\* outside that prefix is zeroed.
C9_PrefixExceedingP ==
    tp_pc = "done" => tp_sort = KeepPrefix(TpSorted, PrefixExceeding(TpSorted, tp_p))

\* C9 witness: a prefix sums to p exactly and the token after it kept its mass.
C9_Witness ==
    /\ tp_pc = "done"
    /\ \E k \in DOMAIN tp_sort :
        /\ Cumsum(TpSorted)[k] = tp_p
        /\ k + 1 \in DOMAIN tp_sort
        /\ TpSorted[k + 1] > 0
        /\ tp_sort[k + 1] = TpSorted[k + 1]

\* ------------------------------------------------------ repeat_kv taken alone
RkMaxBatch == 2
RkMaxSeq == 2
RkMaxKvHeads == 2
RkMaxRep == 3

\* the head vectors that are tried; the head_dim axis is the last axis of every
\* tensor here and neither expand nor reshape touches it, so a head vector
\* is one value
RkHeads == {0, 1}

\* the tensors x of shape (batch_size, seq_len, n_kv_heads, head_dim) that are tried
RkInputs ==
    UNION { [0 .. (nb - 1) -> [0 .. (ns - 1) -> [0 .. (nh - 1) -> RkHeads]]] :
                nb \in 1 .. RkMaxBatch, ns \in 1 .. RkMaxSeq, nh \in 1 .. RkMaxKvHeads }

\* x[:, :, :, None, :].expand(batch_size, seq_len, n_kv_heads, n_rep, head_dim)
Expand(x, n_rep) ==
    [b \in DOMAIN x |-> [s \in DOMAIN x[b] |-> [h \in DOMAIN x[b][s] |->
        [r \in 0 .. (n_rep - 1) |-> x[b][s][h]]]]]

\* a bug: the two merged axes are read in the other order (the copies tiled)
ReshapeTiled(t, n_kv_heads, n_rep) ==
    [b \in DOMAIN t |-> [s \in DOMAIN t[b] |->
        [j \in 0 .. (n_kv_heads * n_rep - 1) |-> t[b][s][j % n_kv_heads][j \div n_kv_heads]]]]

\* .reshape(batch_size, seq_len, n_kv_heads * n_rep, head_dim): the axes
\* (n_kv_heads, n_rep) merged in row-major order
Reshape(t, n_kv_heads, n_rep) ==
    [b \in DOMAIN t |-> [s \in DOMAIN t[b] |->
        [j \in 0 .. (n_kv_heads * n_rep - 1) |-> t[b][s][j \div n_rep][j % n_rep]]]]

repeat_kv(x, n_rep) ==
    LET n_kv_heads == Len0(x[0][0])
    IN  IF n_rep = 1 THEN x
        ELSE Reshape(Expand(x, n_rep), n_kv_heads, n_rep)

InitRepeatKV ==
    /\ cache_k = ZeroCache
    /\ cache_v = ZeroCache
    /\ pc = "idle"
    /\ ncalls = 0
    /\ NoCall
    /\ TopPOff
    /\ ConfigOff
    /\ rk_pc = "input"
    /\ rk_x \in RkInputs
    /\ rk_n_rep \in 1 .. RkMaxRep
    /\ rk_out = Unset

\* keys = repeat_kv(keys, self.n_rep) (lines 232-234)
RepeatKV ==
    /\ rk_pc = "input"
    /\ rk_out' = repeat_kv(rk_x, rk_n_rep)
    /\ rk_pc' = "done"
    /\ UNCHANGED <<rk_x, rk_n_rep, pc, ncalls>>
    /\ UNCHANGED cacheVars
    /\ UNCHANGED callVars
    /\ UNCHANGED tpVars
    /\ UNCHANGED cfgVars

NextRepeatKV == RepeatKV

SpecRepeatKV == InitRepeatKV /\ [][NextRepeatKV]_vars

\* C12: for every input of shape (batch, seq_len, n_kv_heads, head_dim) and
\* every n_rep >= 1, repeat_kv returns a tensor with the rows and positions of
\* its input and n_kv_heads * n_rep heads, in which head h equals input head
\* h \div n_rep at every row and position; for n_rep = 1 it returns its input.
C12_GroupedHeadExpansion ==
    rk_pc = "done" =>
        /\ DOMAIN rk_out = DOMAIN rk_x
        /\ \A b \in DOMAIN rk_x :
            /\ DOMAIN rk_out[b] = DOMAIN rk_x[b]
            /\ \A s \in DOMAIN rk_x[b] :
                /\ DOMAIN rk_out[b][s] = 0 .. (Len0(rk_x[b][s]) * rk_n_rep - 1)
                /\ \A h \in DOMAIN rk_out[b][s] :
                    rk_out[b][s][h] = rk_x[b][s][h \div rk_n_rep]
        /\ rk_n_rep = 1 => rk_out = rk_x

C12_Witness ==
    /\ rk_pc = "done"
    /\ rk_n_rep >= 2
    /\ Len0(rk_x) = 2
    /\ Len0(rk_x[1]) = 2
    /\ Len0(rk_x[1][1]) = 2
    /\ rk_x[1][1][0] # rk_x[1][1][1]
    /\ Len0(rk_out[1][1]) = 2 * rk_n_rep

\* ------------------------------------------- Transformer(args) taken alone
CfgMaxDim == 8
CfgMaxHeads == 4

\* ModelArgs.vocab_size before build sets it
VocabUnset == -1

\* the ModelArgs that are tried: every head has at least one dimension,
\* n_kv_heads is None or a head count
ConfigArgs ==
    [ dim : { d \in 1 .. CfgMaxDim : d >= CfgMaxHeads },
      n_heads : 1 .. CfgMaxHeads,
      n_kv_heads : {NoneArg} \cup (1 .. CfgMaxHeads),
      vocab_size : {VocabUnset, vocab_size} ]

\* SelfAttention.__init__: the attributes it computes (lines 177-183); it
\* asserts nothing
SelfAttentionInit(args) ==
    LET n_kv_heads == IF args.n_kv_heads = NoneArg THEN args.n_heads ELSE args.n_kv_heads
        n_heads_q == args.n_heads
    IN  [ n_kv_heads |-> n_kv_heads,
          n_heads_q |-> n_heads_q,
          n_rep |-> n_heads_q \div n_kv_heads,
          head_dim |-> args.dim \div args.n_heads ]

\* the one assertion of Transformer.__init__ (line 340)
VocabAssert(args) == args.vocab_size # VocabUnset

InitConfig ==
    /\ cache_k = ZeroCache
    /\ cache_v = ZeroCache
    /\ pc = "idle"
    /\ ncalls = 0
    /\ NoCall
    /\ TopPOff
    /\ RepeatKvOff
    /\ cfg_pc = "input"
    /\ cfg_args \in ConfigArgs
    /\ cfg_model = Unset

\* Transformer.__init__ (lines 337-354): the assertion, then one EncoderBlock,
\* and in it one SelfAttention, per layer
Construct ==
    /\ cfg_pc = "input"
    /\ IF VocabAssert(cfg_args)
       THEN /\ cfg_pc' = "built"
            /\ cfg_model' = [ vocab_size |-> cfg_args.vocab_size,
                              layers |-> [l \in 0 .. (n_layers - 1) |->
                                            SelfAttentionInit(cfg_args)] ]
       ELSE /\ cfg_pc' = "failed"
            /\ cfg_model' = Unset
    /\ UNCHANGED <<cfg_args, pc, ncalls>>
    /\ UNCHANGED cacheVars
    /\ UNCHANGED callVars
    /\ UNCHANGED tpVars
    /\ UNCHANGED rkVars

NextConfig == Construct

SpecConfig == InitConfig /\ [][NextConfig]_vars

\* the key/value head count a configuration stands for
KvHeadsOf(args) == IF args.n_kv_heads = NoneArg THEN args.n_heads ELSE args.n_kv_heads

\* C11 as claimed: a model is only ever constructed from a configuration whose
\* n_heads is divisible by n_kv_heads, whose dim is divisible by n_heads and
\* whose vocab_size is set; construction fails for every other configuration.
C11_ConfigValidated ==
    cfg_pc = "built" =>
        /\ cfg_args.n_heads % KvHeadsOf(cfg_args) = 0
        /\ cfg_args.dim % cfg_args.n_heads = 0
        /\ cfg_args.vocab_size # VocabUnset

====
